---- MODULE Spec2Model ----
(***************************************************************************)
(* A model of qbittorrent-rs: the session client (src/src/client.rs), the  *)
(* list-filter parameters and their builder (src/src/common.rs) and the    *)
(* upload description, its builder and its encoder (src/src/torrent.rs).   *)
(*                                                                         *)
(* Spec        the session client: login and the authenticated operations  *)
(* SpecParams  GetTorrentListParams::to_params applied to drawn values     *)
(* SpecBuilder the two builders: setters, single-item appends and build()  *)
(* SpecUpload  TorrentUpload::to_multipart_form applied to drawn values    *)
(* SpecList    the session client listing torrents for a caller's filter   *)
(***************************************************************************)
EXTENDS Integers, Sequences, FiniteSets, Bags, TLC

VARIABLES
    auth_string,      \* QBittorrentClient.auth_string: Option<String>
    connection_info,  \* QBittorrentClient.connection_info: Option<ConnectionInfo>
    pending,          \* bag of the requests dispatched and not yet answered
    event,            \* what the latest step of a call did: its op, inputs, outcome
    lastLogin,        \* history: Option of the record of the latest successful login
    params,           \* SpecParams: the GetTorrentListParams value being encoded
    encoded,          \* SpecParams: Option of the string to_params returned
    torrent_upload,   \* SpecUpload: the TorrentUpload value being encoded
    built_form,       \* SpecUpload: Option of what to_multipart_form came to
    lbuilder,         \* GetTorrentListParamsBuilder.param
    lbuilt,           \* Option of the value GetTorrentListParamsBuilder::build returned
    ubuilder,         \* TorrentUploadBuilder.params
    ubuilt,           \* Option of the value TorrentUploadBuilder::build returned
    calls             \* history: how many builder calls were made, what was appended

vars == <<auth_string, connection_info, pending, event, lastLogin,
          params, encoded, torrent_upload, built_form,
          lbuilder, lbuilt, ubuilder, ubuilt, calls>>

clientVars  == <<auth_string, connection_info, pending, event, lastLogin>>
paramsVars  == <<params, encoded>>
uploadVars  == <<torrent_upload, built_form>>
builderVars == <<lbuilder, lbuilt, ubuilder, ubuilt, calls>>

(***************************************************************************)
(* Bounds of the model.                                                    *)
(***************************************************************************)
\* authenticated calls that may be awaiting their response at once
MaxInflight == 2
\* longest hash list drawn for GetTorrentListParams.hashes in SpecParams
MaxHashes == 2
\* builder calls (setters, appends, build) made in one run of SpecBuilder
MaxCalls == 4
\* longest torrent list a response body is read as
MaxTorrents == 2
\* longest url list and longest file list drawn for a TorrentUpload in SpecUpload
MaxUrls == 2
MaxFiles == 2

(***************************************************************************)
(* Option<T>: None is the empty sequence, Some(x) the one-element one.     *)
(***************************************************************************)
None == <<>>
Some(x) == <<x>>
IsSome(o) == Len(o) = 1
Unwrap(o) == o[1]
Opt(S) == {None} \cup {Some(x) : x \in S}

\* the sequences over S of length at most n
SeqUpTo(S, n) == UNION {[1..k -> S] : k \in 0..n}

(***************************************************************************)
(* Strings.  Header values are sequences of one-character strings, so that *)
(* str::split and str::starts_with are computed; every other string is a   *)
(* TLA+ string, concatenated with \o.                                      *)
(***************************************************************************)
\* bool::to_string
BoolToString(b) == IF b THEN "true" ELSE "false"

\* i32 / i64 / u64 Display: the decimal numeral
IntToString(i) == ToString(i)

\* f32 Display, of a ratio held in tenths: 15 is 1.5 and prints "1.5", 20 is
\* 2.0 and prints "2"
F32ToString(tenths) ==
    LET a == IF tenths < 0 THEN -tenths ELSE tenths
        whole == (IF tenths < 0 THEN "-" ELSE "") \o ToString(a \div 10)
    IN IF a % 10 = 0 THEN whole ELSE whole \o "." \o ToString(a % 10)

\* [String]::join(sep)
RECURSIVE Join(_, _)
Join(items, sep) ==
    IF Len(items) = 0 THEN ""
    ELSE IF Len(items) = 1 THEN items[1]
    ELSE items[1] \o sep \o Join(Tail(items), sep)

\* str::split(';'): the pieces between the separators, empty pieces kept
RECURSIVE Split(_, _)
Split(s, sep) ==
    IF \A i \in 1..Len(s) : s[i] # sep THEN <<s>>
    ELSE LET i == CHOOSE k \in 1..Len(s) :
                      s[k] = sep /\ \A j \in 1..(k - 1) : s[j] # sep
         IN <<SubSeq(s, 1, i - 1)>> \o Split(SubSeq(s, i + 1, Len(s)), sep)

\* str::starts_with
StartsWith(s, prefix) ==
    Len(s) >= Len(prefix) /\ SubSeq(s, 1, Len(prefix)) = prefix

SidPrefix == <<"S", "I", "D", "=">>

\* cookies.iter().find(|c| c.starts_with("SID=")): Option of the first match
FindSid(cookies) ==
    LET hits == {i \in 1..Len(cookies) : StartsWith(cookies[i], SidPrefix)}
    IN IF hits = {} THEN None
       ELSE Some(cookies[CHOOSE i \in hits : \A j \in hits : i <= j])

(***************************************************************************)
(* TorrentUpload and its encoder (src/src/torrent.rs).                     *)
(***************************************************************************)
\* TorrentUpload::default(): empty lists, every optional field None
DefaultUpload ==
    [urls |-> <<>>, torrents |-> <<>>,
     save_path |-> None, cookie |-> None, category |-> None, tags |-> None,
     skip_hash_check |-> None, paused |-> None, root_folder |-> None,
     rename |-> None, upload_limit |-> None, download_limit |-> None,
     ratio_limit |-> None, seeding_time_limit |-> None, auto_tmm |-> None,
     sequential_download |-> None, first_last_piece_prio |-> None]

\* Form::text(name, value)
TextPart(name, value) == [name |-> name, text |-> Some(value), file |-> None]

\* Form::part(name, Part::bytes(data).file_name(f).mime_str("application/x-bittorrent"))
FilePart(name, file_name, data) ==
    [name |-> name, text |-> None,
     file |-> Some([file_name |-> file_name, bytes |-> data,
                    mime |-> "application/x-bittorrent"])]

\* Option<bool> / Option<integer> / Option<Vec<String>> to the Option of its text
OptBool(field) == IF IsSome(field) THEN Some(BoolToString(Unwrap(field))) ELSE None
OptInt(field) == IF IsSome(field) THEN Some(IntToString(Unwrap(field))) ELSE None
OptJoined(field, sep) == IF IsSome(field) THEN Some(Join(Unwrap(field), sep)) ELSE None
OptF32(field) == IF IsSome(field) THEN Some(F32ToString(Unwrap(field))) ELSE None

\* a slip: an unset field is sent as an empty text part
OptText_unset_empty(name, field) ==
    <<TextPart(name, IF IsSome(field) THEN Unwrap(field) ELSE "")>>

\* if let Some(x) = &self.field { form = form.text(name, x) }
OptText(name, field) ==
    IF IsSome(field) THEN <<TextPart(name, Unwrap(field))>> ELSE <<>>

\* a slip: one "urls" part for each url
UrlsPart_per_url(urls) == [i \in 1..Len(urls) |-> TextPart("urls", urls[i])]

\* if !self.urls.is_empty() { form = form.text("urls", self.urls.join("\n")) }
UrlsPart(urls) ==
    IF urls # <<>> THEN <<TextPart("urls", Join(urls, "\n"))>> ELSE <<>>

\* for torrent in self.torrents.iter() { form = form.part("torrents", ..) }
TorrentParts(torrents) ==
    [i \in 1..Len(torrents) |-> FilePart("torrents", torrents[i][1], torrents[i][2])]

\* the parts to_multipart_form adds once the emptiness check has passed
FormParts(u) ==
    UrlsPart(u.urls)
    \o TorrentParts(u.torrents)
    \o OptText("savepath", u.save_path)
    \o OptText("cookie", u.cookie)
    \o OptText("category", u.category)
    \o OptText("tags", OptJoined(u.tags, ","))
    \o OptText("skip_checking", OptBool(u.skip_hash_check))
    \o OptText("paused", OptBool(u.paused))
    \o OptText("root_folder", OptBool(u.root_folder))
    \o OptText("rename", u.rename)
    \o OptText("upLimit", OptInt(u.upload_limit))
    \o OptText("dlLimit", OptInt(u.download_limit))
    \o OptText("ratioLimit", OptF32(u.ratio_limit))
    \o OptText("seedingTimeLimit", OptInt(u.seeding_time_limit))
    \o OptText("autoTMM", OptBool(u.auto_tmm))
    \o OptText("sequentialDownload", OptBool(u.sequential_download))
    \o OptText("firstLastPiecePrio", OptBool(u.first_last_piece_prio))

\* a slip: the emptiness check left out, an empty form is built
to_multipart_form_unchecked(u) == [panicked |-> FALSE, form |-> FormParts(u)]

\* TorrentUpload::to_multipart_form: panics when there is nothing to upload
to_multipart_form(u) ==
    IF u.urls = <<>> /\ u.torrents = <<>>
    THEN [panicked |-> TRUE, form |-> <<>>]
    ELSE [panicked |-> FALSE, form |-> FormParts(u)]

\* the values drawn for the fields of a TorrentUpload: every combination of
\* set and unset optional fields, without a source and with one url
UploadFields ==
    [urls : {<<>>, <<"magnet:?xt=1">>}, torrents : {<<>>},
     save_path : Opt({"/downloads"}), cookie : Opt({"k=v"}),
     category : Opt({"movies"}), tags : Opt({<<"hd", "iso">>}),
     skip_hash_check : Opt({FALSE}), paused : Opt({TRUE}),
     root_folder : Opt({TRUE}), rename : Opt({"debian.iso"}),
     upload_limit : Opt({500}), download_limit : Opt({-1}),
     ratio_limit : Opt({15}), seeding_time_limit : Opt({3600}),
     auto_tmm : Opt({FALSE}), sequential_download : Opt({TRUE}),
     first_last_piece_prio : Opt({FALSE})]

\* an upload with every optional field set, to other values
FullUpload ==
    [urls |-> <<>>, torrents |-> <<>>,
     save_path |-> Some("/data"), cookie |-> Some("a=b; c=d"),
     category |-> Some("tv"), tags |-> Some(<<"one">>),
     skip_hash_check |-> Some(TRUE), paused |-> Some(FALSE),
     root_folder |-> Some(FALSE), rename |-> Some("x"),
     upload_limit |-> Some(0), download_limit |-> Some(1024),
     ratio_limit |-> Some(20), seeding_time_limit |-> Some(0),
     auto_tmm |-> Some(TRUE), sequential_download |-> Some(FALSE),
     first_last_piece_prio |-> Some(TRUE)]

UploadUrls  == {"magnet:?xt=1", "http://host/b.torrent"}
UploadFiles == {<<"a.torrent", <<1, 2>> >>, <<"b.torrent", <<3>> >>}

\* every url list and every file list up to the bounds, with no optional
\* field set and with all of them set
UploadSources ==
    {[u EXCEPT !.urls = us, !.torrents = ts] :
        us \in SeqUpTo(UploadUrls, MaxUrls),
        ts \in SeqUpTo(UploadFiles, MaxFiles),
        u \in {DefaultUpload, FullUpload}}

UploadSpace == UploadFields \cup UploadSources

\* the caller encodes the upload it holds; a panic ends the caller
ToMultipartForm ==
    /\ built_form = None
    /\ built_form' = Some(to_multipart_form(torrent_upload))
    /\ UNCHANGED <<torrent_upload, clientVars, paramsVars, builderVars>>

(***************************************************************************)
(* The inputs the session client is driven with.                           *)
(***************************************************************************)
Urls      == {"http://localhost:8080", "http://seedbox:9090"}
Usernames == {"admin"}
Passwords == {"adminadmin"}

\* Set-Cookie header values, character by character
HdrSidPath    == <<"S","I","D","=","a","b","c","1","2","3",";","P","a","t","h","=","/">>
HdrSidOnly    == <<"S","I","D","=","b">>
HdrPathSid    == <<"P","a","t","h","=","/",";","S","I","D","=","b">>
HdrPathSpSid  == <<"P","a","t","h","=","/",";"," ","S","I","D","=","b">>
HdrPathOnly   == <<"P","a","t","h","=","/">>
HdrLowerSid   == <<"s","i","d","=","b">>
HdrTwoSids    == <<"S","I","D","=","b",";","S","I","D","=","a","b","c","1","2","3">>

\* a header value is its bytes and whether HeaderValue::to_str accepts them
\* (visible ASCII only); the bytes of a refused value are not looked at
TextHeader(chars) == [text |-> TRUE, chars |-> chars]
OpaqueHeader      == [text |-> FALSE, chars |-> <<>>]

SetCookieHeaders ==
    {None, Some(OpaqueHeader)}
    \cup {Some(TextHeader(h)) : h \in {HdrSidPath, HdrSidOnly, HdrPathSid,
                                       HdrPathSpSid, HdrPathOnly, HdrLowerSid,
                                       HdrTwoSids}}

LoginBodies == {"Ok.", "Fails.", "Ok"}

\* send() failed: there is no response
NoResponse ==
    [received |-> FALSE, status |-> 0, set_cookie |-> None,
     body_read |-> FALSE, body |-> ""]

\* a response: its status, its Set-Cookie header, its body and whether
\* reading the body to the end (text().await) succeeded
Response(status, set_cookie, body_read, body) ==
    [received |-> TRUE, status |-> status, set_cookie |-> set_cookie,
     body_read |-> body_read, body |-> body]

\* the answers to login: no answer, every header with every body under
\* status 200, the bodies under status 403, and a body cut short
LoginResponses ==
    {NoResponse}
    \cup {Response(200, h, TRUE, b) : h \in SetCookieHeaders, b \in LoginBodies}
    \cup {Response(403, h, TRUE, b) :
            h \in {None, Some(TextHeader(HdrSidOnly))}, b \in LoginBodies}
    \cup {Response(200, Some(TextHeader(HdrSidOnly)), FALSE, "Ok.")}

\* a torrent on the wire, by its state, the field of TorrentInfo looked at here
TorrentJson(state) == "{\"state\":\"" \o state \o "\"}"

\* the body of a list response: the JSON array of its torrents
ListBody(states) ==
    "[" \o Join([i \in 1..Len(states) |-> TorrentJson(states[i])], ",") \o "]"

\* the state names the server is taken to send: two the client enumerates,
\* "unknown" itself, and two of later server versions
WireStates == {"downloading", "pausedUP", "unknown", "forcedMetaDL", "stoppedDL"}

\* the answers to the authenticated operations: no answer, a refusal, a body
\* cut short, the empty JSON array, a body that is no JSON, a torrent in an
\* enumerated state, and two torrents of which one is in a later state
Responses ==
    {NoResponse,
     Response(403, None, TRUE, "[]"),
     Response(200, None, FALSE, "[]"),
     Response(200, None, TRUE, "[]"),
     Response(200, None, TRUE, "<html>"),
     Response(200, None, TRUE, ListBody(<<"downloading">>)),
     Response(200, None, TRUE, ListBody(<<"pausedUP", "forcedMetaDL">>))}

\* torrents are named by their hash, the one field of TorrentInfo the client reads
TorrentHashes == {"a"}
TorrentLists  == {<<"a", "b", "c">>}
TrackerUrls   == {"udp://tracker:6969"}
TagNames      == {"linux"}

\* the uploads add_torrent is called with
Uploads ==
    {DefaultUpload,
     [DefaultUpload EXCEPT !.upload_limit = Some(500)],
     [DefaultUpload EXCEPT !.urls = <<"magnet:?xt=1", "magnet:?xt=2">>],
     [DefaultUpload EXCEPT !.torrents = << <<"a.torrent", <<1, 2>> >> >>],
     [DefaultUpload EXCEPT !.urls = <<"magnet:?xt=1">>,
                           !.torrents = << <<"a.torrent", <<1, 2>> >> >>,
                           !.upload_limit = Some(500)]}

(***************************************************************************)
(* The session client (src/src/client.rs).                                 *)
(***************************************************************************)
\* Response::error_for_status lets 2xx through
Is2xx(status) == status \in 200..299

\* a slip: the body compared loosely
BodyIsOk_prefix(content) == content \in {"Ok.", "Ok"}

\* content == "Ok."
BodyIsOk(content) == content = "Ok."

\* what a step of a call did
Event(op, kind, args, resp) ==
    [op |-> op, kind |-> kind, args |-> args, resp |-> resp]

\* login leaving the session as it was, with the outcome `kind`
LoginFails(self, kind) ==
    [kind |-> kind, auth_string |-> self.auth_string,
     connection_info |-> self.connection_info]

\* a slip: a refused login forgets the token of the previous login
LoginRejected_forgets(self) ==
    [kind |-> "Authorization", auth_string |-> None,
     connection_info |-> self.connection_info]

\* the else branch of login: Err(ClientError::Authorization)
LoginRejected(self) == LoginFails(self, "Authorization")

\* a slip: the connection info is stored, the token is not
LoginStores_no_token(self, url, username, password, sid) ==
    [kind |-> "Ok", auth_string |-> self.auth_string,
     connection_info |-> Some([url |-> url, username |-> username,
                               password |-> password])]

\* a slip: the token of an earlier login is kept when there is one
LoginStores_keeps_token(self, url, username, password, sid) ==
    [kind |-> "Ok",
     auth_string |-> IF IsSome(self.auth_string) THEN self.auth_string ELSE Some(sid),
     connection_info |-> Some([url |-> url, username |-> username,
                               password |-> password])]

\* a slip: username and password stored in each other's place
LoginStores_swapped(self, url, username, password, sid) ==
    [kind |-> "Ok", auth_string |-> Some(sid),
     connection_info |-> Some([url |-> url, username |-> password,
                               password |-> username])]

\* the stores of a successful login: the token, then the connection info
LoginStores(self, url, username, password, sid) ==
    [kind |-> "Ok", auth_string |-> Some(sid),
     connection_info |-> Some([url |-> url, username |-> username,
                               password |-> password])]

\* login, from the response on: its outcome and the session it leaves
LoginOutcome(self, url, username, password, resp) ==
    IF ~resp.received THEN LoginFails(self, "Http")
    ELSE IF ~Is2xx(resp.status) THEN LoginFails(self, "Http")
    ELSE IF ~resp.body_read THEN LoginFails(self, "Http")
    ELSE IF BodyIsOk(resp.body)
    THEN IF resp.set_cookie = None THEN LoginFails(self, "Panic")
         ELSE IF ~Unwrap(resp.set_cookie).text THEN LoginFails(self, "Panic")
         ELSE LET sid == FindSid(Split(Unwrap(resp.set_cookie).chars, ";"))
              IN IF sid = None THEN LoginFails(self, "Panic")
                 ELSE LoginStores(self, url, username, password, Unwrap(sid))
    ELSE LoginRejected(self)

\* the semicolon-delimited segments of a header value that begin with "SID=",
\* as the pairs of their first and last positions
SidSegments(h) ==
    {ab \in (1..Len(h)) \X (1..Len(h)) :
        /\ ab[1] <= ab[2]
        /\ ab[1] = 1 \/ h[ab[1] - 1] = ";"
        /\ ab[2] = Len(h) \/ h[ab[2] + 1] = ";"
        /\ \A k \in ab[1]..ab[2] : h[k] # ";"
        /\ StartsWith(SubSeq(h, ab[1], ab[2]), SidPrefix)}

\* Option of the leftmost such segment of an Option of a header value
SidSegmentOf(set_cookie) ==
    IF set_cookie = None \/ ~Unwrap(set_cookie).text THEN None
    ELSE LET h == Unwrap(set_cookie).chars
             segs == SidSegments(h)
         IN IF segs = {} THEN None
            ELSE LET ab == CHOOSE x \in segs : \A y \in segs : x[1] <= y[1]
                 IN Some(SubSeq(h, ab[1], ab[2]))

\* the history kept of a successful login: the url it was given, the SID
\* segment of its response, and whether it replaced an earlier successful
\* login that had another url and another segment
LoginRecord(url, token) ==
    [url |-> url, token |-> token,
     replaced |-> /\ IsSome(lastLogin)
                  /\ Unwrap(lastLogin).url # url
                  /\ Unwrap(lastLogin).token # token]

\* QBittorrentClient::new
ClientNew ==
    /\ auth_string = None
    /\ connection_info = None
    /\ pending = EmptyBag
    /\ event = Event("new", "Ok", <<>>, None)
    /\ lastLogin = None

\* login(&mut self, ..): it runs alone, no other call of the client is in
\* flight while the session is borrowed mutably
login(url, username, password) ==
    /\ pending = EmptyBag
    /\ \E resp \in LoginResponses :
          LET out == LoginOutcome([auth_string |-> auth_string,
                                   connection_info |-> connection_info],
                                  url, username, password, resp)
          IN /\ auth_string' = out.auth_string
             /\ connection_info' = out.connection_info
             /\ event' = Event("login", out.kind, <<url, username, password>>,
                               Some(resp))
             /\ lastLogin' = IF out.kind = "Ok"
                             THEN Some(LoginRecord(url, SidSegmentOf(resp.set_cookie)))
                             ELSE lastLogin
    /\ UNCHANGED <<pending, paramsVars, uploadVars, builderVars>>

\* if let (Some(auth_string), Some(conn)) = (self.auth_string.as_ref(), ...)
Authenticated == IsSome(auth_string) /\ IsSome(connection_info)

\* the request an authenticated operation builds: the endpoint under the
\* stored url, the stored token as the Cookie header
Request(op, method, path, form, multipart) ==
    [op |-> op, method |-> method,
     url |-> Unwrap(connection_info).url \o path,
     cookie |-> Unwrap(auth_string),
     form |-> form, multipart |-> multipart]

\* send(): the request leaves, the call awaits the response
Dispatch(op, args, req) ==
    /\ BagCardinality(pending) < MaxInflight
    /\ pending' = pending (+) SetToBag({req})
    /\ event' = Event(op, "Pending", args, None)

\* a slip: a call made without a session reports success
NotLoggedIn_ok(op, args) ==
    /\ event' = Event(op, "Ok", args, None)
    /\ pending' = pending

\* the else branch of every authenticated operation
NotLoggedIn(op, args) ==
    /\ event' = Event(op, "Authorization", args, None)
    /\ pending' = pending

\* an authenticated operation up to its send(): the session check, then the request
AuthenticatedCall(op, args, method, path, form) ==
    /\ IF Authenticated
       THEN Dispatch(op, args, Request(op, method, path, form, None))
       ELSE NotLoggedIn(op, args)
    /\ UNCHANGED <<auth_string, connection_info, lastLogin,
                   paramsVars, uploadVars, builderVars>>

get_torrent_list ==
    AuthenticatedCall("get_torrent_list", <<>>, "POST", "/api/v2/torrents/info", <<>>)

get_torrent_trackers(hash) ==
    AuthenticatedCall("get_torrent_trackers", <<hash>>, "POST",
                      "/api/v2/torrents/trackers", << <<"hash", hash>> >>)

add_torrent_tracker(hash, tracker_url) ==
    AuthenticatedCall("add_torrent_tracker", <<hash, tracker_url>>, "POST",
                      "/api/v2/torrents/addTrackers",
                      << <<"hash", hash>>, <<"urls", tracker_url>> >>)

replace_torrent_tracker(hash, old_url, new_url) ==
    AuthenticatedCall("replace_torrent_tracker", <<hash, old_url, new_url>>, "POST",
                      "/api/v2/torrents/editTracker",
                      << <<"hash", hash>>, <<"origUrl", old_url>>,
                         <<"newUrl", new_url>> >>)

remove_torrent_tracker(hash, tracker_url) ==
    AuthenticatedCall("remove_torrent_tracker", <<hash, tracker_url>>, "POST",
                      "/api/v2/torrents/removeTrackers",
                      << <<"hash", hash>>, <<"urls", tracker_url>> >>)

\* the form is built, and may panic, before anything is sent
add_torrent(upload) ==
    /\ IF Authenticated
       THEN LET built == to_multipart_form(upload)
            IN IF built.panicked
               THEN /\ event' = Event("add_torrent", "Panic", <<upload>>, None)
                    /\ pending' = pending
               ELSE Dispatch("add_torrent", <<upload>>,
                             Request("add_torrent", "POST", "/api/v2/torrents/add",
                                     <<>>, Some(built.form)))
       ELSE NotLoggedIn("add_torrent", <<upload>>)
    /\ UNCHANGED <<auth_string, connection_info, lastLogin,
                   paramsVars, uploadVars, builderVars>>

remove_torrent(hash, delete_files) ==
    AuthenticatedCall("remove_torrent", <<hash, delete_files>>, "POST",
                      "/api/v2/torrents/delete",
                      << <<"hashes", hash>>,
                         <<"deleteFiles", BoolToString(delete_files)>> >>)

\* a slip: the hashes joined by a comma
remove_torrents_comma(hashes, delete_files) ==
    AuthenticatedCall("remove_torrents", <<hashes, delete_files>>, "POST",
                      "/api/v2/torrents/delete",
                      << <<"hashes", Join(hashes, ",")>>,
                         <<"deleteFiles", BoolToString(delete_files)>> >>)

\* the hashes of the torrents joined by "|", one request for the whole list
remove_torrents(hashes, delete_files) ==
    AuthenticatedCall("remove_torrents", <<hashes, delete_files>>, "POST",
                      "/api/v2/torrents/delete",
                      << <<"hashes", Join(hashes, "|")>>,
                         <<"deleteFiles", BoolToString(delete_files)>> >>)

get_tags ==
    AuthenticatedCall("get_tags", <<>>, "GET", "/api/v2/torrents/tags", <<>>)

create_tag(tag) ==
    AuthenticatedCall("create_tag", <<tag>>, "POST", "/api/v2/torrents/createTags",
                      << <<"tags", tag>> >>)

delete_tag(tag) ==
    AuthenticatedCall("delete_tag", <<tag>>, "POST", "/api/v2/torrents/deleteTags",
                      << <<"tags", tag>> >>)

\* the operations that read the body and decode it as a JSON array
JsonOps == {"get_torrent_list", "get_torrent_trackers", "get_tags"}

\* the torrent lists up to MaxTorrents torrents, under their bodies
TorrentListOfBody ==
    LET docs == SeqUpTo(WireStates, MaxTorrents)
    IN [b \in {ListBody(d) : d \in docs} |-> CHOOSE d \in docs : ListBody(d) = b]

\* serde_json reading a body as an array of torrents: Option of the state
\* names of its torrents, None when the body is no such array
ParseTorrentList(body) ==
    IF body \in DOMAIN TorrentListOfBody THEN Some(TorrentListOfBody[body]) ELSE None

\* the derived Deserialize of TorrentState: Option of the variant whose rename
\* is the name; no variant is marked as the fallback, so any other name is an
\* "unknown variant" error
TorrentStateFromWire(name) ==
    CASE name = "error" -> Some("Error")
      [] name = "missingFiles" -> Some("MissingFiles")
      [] name = "uploading" -> Some("Uploading")
      [] name = "pausedUP" -> Some("PausedUP")
      [] name = "queuedUP" -> Some("QueuedUP")
      [] name = "stalledUP" -> Some("StalledUP")
      [] name = "checkingUP" -> Some("CheckingUP")
      [] name = "forcedUP" -> Some("ForcedUP")
      [] name = "allocating" -> Some("Allocating")
      [] name = "downloading" -> Some("Downloading")
      [] name = "metaDL" -> Some("MetaDownloading")
      [] name = "pausedDL" -> Some("PausedDL")
      [] name = "queuedDL" -> Some("QueuedDL")
      [] name = "stalledDL" -> Some("StalledDL")
      [] name = "checkingDL" -> Some("CheckingDL")
      [] name = "forcedDL" -> Some("ForcedDL")
      [] name = "checkingResumeData" -> Some("CheckingResumeData")
      [] name = "moving" -> Some("Moving")
      [] name = "unknown" -> Some("Unknown")
      [] OTHER -> None

\* serde_json::from_str::<Vec<TorrentInfo>>(&content): Option of the states of
\* the torrents decoded, None when the body or any one torrent fails to decode
DecodeTorrentList(body) ==
    LET doc == ParseTorrentList(body)
    IN IF doc = None THEN None
       ELSE IF \E i \in 1..Len(Unwrap(doc)) :
                   TorrentStateFromWire(Unwrap(doc)[i]) = None
       THEN None
       ELSE Some([i \in 1..Len(Unwrap(doc)) |->
                     Unwrap(TorrentStateFromWire(Unwrap(doc)[i]))])

\* serde_json::from_str::<Vec<_>>(&content) succeeds: a torrent list for
\* get_torrent_list; of the bodies drawn only the empty array is a list of
\* trackers or of tags
DecodesAsList(op, body) ==
    IF op = "get_torrent_list" THEN DecodeTorrentList(body) # None
    ELSE body = "[]"

\* an authenticated operation from its response on
ReplyOutcome(op, resp) ==
    IF ~resp.received THEN "Http"
    ELSE IF ~Is2xx(resp.status) THEN "Http"
    ELSE IF op \notin JsonOps THEN "Ok"
    ELSE IF ~resp.body_read THEN "Http"
    ELSE IF ~DecodesAsList(op, resp.body) THEN "Json"
    ELSE "Ok"

\* a slip: a call that ends in a transport error forgets the token
Respond_logout ==
    /\ \E req \in BagToSet(pending), resp \in Responses :
          /\ pending' = pending (-) SetToBag({req})
          /\ event' = Event(req.op, ReplyOutcome(req.op, resp), <<>>, Some(resp))
          /\ auth_string' = IF ReplyOutcome(req.op, resp) = "Http" THEN None
                            ELSE auth_string
    /\ UNCHANGED <<connection_info, lastLogin, paramsVars, uploadVars, builderVars>>

\* the response to a request in flight arrives and its call returns
Respond ==
    /\ \E req \in BagToSet(pending), resp \in Responses :
          /\ pending' = pending (-) SetToBag({req})
          /\ event' = Event(req.op, ReplyOutcome(req.op, resp), <<>>, Some(resp))
    /\ UNCHANGED <<auth_string, connection_info, lastLogin,
                   paramsVars, uploadVars, builderVars>>

(***************************************************************************)
(* GetTorrentListParams, its encoder and its builder (src/src/common.rs).  *)
(***************************************************************************)
TorrentListFilter ==
    {"All", "Downloading", "Seeding", "Completed", "Paused", "Active", "Inactive",
     "Resumed", "Stalled", "StalledUploading", "StalledDownloading", "Errored"}

\* TorrentListFilter::to_string
FilterToString(f) ==
    CASE f = "All" -> "all"
      [] f = "Downloading" -> "downloading"
      [] f = "Seeding" -> "seeding"
      [] f = "Completed" -> "completed"
      [] f = "Paused" -> "paused"
      [] f = "Active" -> "active"
      [] f = "Inactive" -> "inactive"
      [] f = "Resumed" -> "resumed"
      [] f = "Stalled" -> "stalled"
      [] f = "StalledUploading" -> "stalled_uploading"
      [] f = "StalledDownloading" -> "stalled_downloading"
      [] f = "Errored" -> "errored"

\* GetTorrentListParams::default(): every field None
DefaultParams ==
    [filter |-> None, category |-> None, tag |-> None, reverse |-> None,
     limit |-> None, offset |-> None, hashes |-> None]

\* Option<TorrentListFilter> to the Option of its wire name
OptFilter(field) == IF IsSome(field) THEN Some(FilterToString(Unwrap(field))) ELSE None

\* if let Some(x) = &field { params.push_str(&format!("<key>{}", x)) }
Pushed(key, field) == IF IsSome(field) THEN key \o Unwrap(field) ELSE ""

\* GetTorrentListParams::to_params; the offset segment is guarded by, and
\* takes its value from, self.limit
to_params(p) ==
    Pushed("&filter=", OptFilter(p.filter))
    \o Pushed("&category=", p.category)
    \o Pushed("&tag=", p.tag)
    \o Pushed("&reverse=", OptBool(p.reverse))
    \o Pushed("&limit=", OptInt(p.limit))
    \o Pushed("&offset=", OptInt(p.limit))
    \o Pushed("&hashes=", OptJoined(p.hashes, "|"))

\* the values drawn for the fields
Categories  == {"movies"}
Tags        == {"hd"}
Limits      == {10, 25}
Offsets     == {0, 5}
HashNames   == {"a", "b"}

ParamsSpace ==
    [filter : Opt(TorrentListFilter), category : Opt(Categories), tag : Opt(Tags),
     reverse : Opt(BOOLEAN), limit : Opt(Limits), offset : Opt(Offsets),
     hashes : Opt(SeqUpTo(HashNames, MaxHashes))]

\* the caller encodes the value it holds
ToParams ==
    /\ encoded = None
    /\ encoded' = Some(to_params(params))
    /\ UNCHANGED <<params, clientVars, uploadVars, builderVars>>

\* field.as_mut().unwrap_or(&mut vec![]).push(item): the item goes to the
\* list when there is one, and otherwise to a temporary that is dropped
PushOrDrop(field, item) ==
    IF IsSome(field) THEN Some(Append(Unwrap(field), item)) ELSE field

\* one more builder call is made
Called == calls.n < MaxCalls

\* GetTorrentListParams::builder(), TorrentUpload::builder()
BuildersNew ==
    /\ lbuilder = DefaultParams
    /\ lbuilt = None
    /\ ubuilder = DefaultUpload
    /\ ubuilt = None
    /\ calls = [n |-> 0, hash_log |-> Some(<<>>), tag_log |-> Some(<<>>),
                lbuilt_log |-> None, ubuilt_log |-> None]

\* a setter of the list builder: the field is stored, the value build()
\* cloned earlier is another object
ListSetter(field, value) ==
    /\ Called
    /\ lbuilder' = [lbuilder EXCEPT ![field] = value]
    /\ UNCHANGED <<lbuilt, ubuilder, ubuilt, clientVars, paramsVars, uploadVars>>

ListBuilder_filter(f) ==
    ListSetter("filter", Some(f)) /\ calls' = [calls EXCEPT !.n = @ + 1]

ListBuilder_category(c) ==
    ListSetter("category", Some(c)) /\ calls' = [calls EXCEPT !.n = @ + 1]

ListBuilder_tag(t) ==
    ListSetter("tag", Some(t)) /\ calls' = [calls EXCEPT !.n = @ + 1]

ListBuilder_reverse ==
    ListSetter("reverse", Some(TRUE)) /\ calls' = [calls EXCEPT !.n = @ + 1]

ListBuilder_limit(n) ==
    ListSetter("limit", Some(n)) /\ calls' = [calls EXCEPT !.n = @ + 1]

ListBuilder_offset(n) ==
    ListSetter("offset", Some(n)) /\ calls' = [calls EXCEPT !.n = @ + 1]

ListBuilder_hash(h) ==
    /\ ListSetter("hashes", PushOrDrop(lbuilder.hashes, h))
    /\ calls' = [calls EXCEPT !.n = @ + 1,
                              !.hash_log = IF IsSome(@) THEN Some(Append(Unwrap(@), h))
                                           ELSE @]

ListBuilder_hashes(hs) ==
    /\ ListSetter("hashes", Some(hs))
    /\ calls' = [calls EXCEPT !.n = @ + 1, !.hash_log = None]

\* GetTorrentListParamsBuilder::build: self.param.clone()
ListBuilder_build ==
    /\ Called
    /\ lbuilt' = Some(lbuilder)
    /\ calls' = [calls EXCEPT !.n = @ + 1, !.lbuilt_log = calls.hash_log]
    /\ UNCHANGED <<lbuilder, ubuilder, ubuilt, clientVars, paramsVars, uploadVars>>

\* a setter of the upload builder; it takes &mut self, so the reference an
\* earlier build() returned is no longer held
UploadSetter(field, value) ==
    /\ Called
    /\ ubuilder' = [ubuilder EXCEPT ![field] = value]
    /\ ubuilt' = None
    /\ UNCHANGED <<lbuilder, lbuilt, clientVars, paramsVars, uploadVars>>

UploadBuilder_url(url) ==
    /\ UploadSetter("urls", Append(ubuilder.urls, url))
    /\ calls' = [calls EXCEPT !.n = @ + 1, !.ubuilt_log = None]

UploadBuilder_torrent_data(filename, data) ==
    /\ UploadSetter("torrents", Append(ubuilder.torrents, <<filename, data>>))
    /\ calls' = [calls EXCEPT !.n = @ + 1, !.ubuilt_log = None]

UploadBuilder_tag(t) ==
    /\ UploadSetter("tags", PushOrDrop(ubuilder.tags, t))
    /\ calls' = [calls EXCEPT !.n = @ + 1, !.ubuilt_log = None,
                              !.tag_log = IF IsSome(@) THEN Some(Append(Unwrap(@), t))
                                          ELSE @]

UploadBuilder_tags(ts) ==
    /\ UploadSetter("tags", Some(ts))
    /\ calls' = [calls EXCEPT !.n = @ + 1, !.ubuilt_log = None, !.tag_log = None]

UploadBuilder_upload_limit(n) ==
    /\ UploadSetter("upload_limit", Some(n))
    /\ calls' = [calls EXCEPT !.n = @ + 1, !.ubuilt_log = None]

\* TorrentUploadBuilder::build: &self.params
UploadBuilder_build ==
    /\ Called
    /\ ubuilt' = Some(ubuilder)
    /\ calls' = [calls EXCEPT !.n = @ + 1, !.ubuilt_log = calls.tag_log]
    /\ UNCHANGED <<ubuilder, lbuilder, lbuilt, clientVars, paramsVars, uploadVars>>

(***************************************************************************)
(* The specifications.                                                     *)
(***************************************************************************)
ParamsIdle == params = DefaultParams /\ encoded = None

UploadIdle == torrent_upload = DefaultUpload /\ built_form = None

Init == ClientNew /\ ParamsIdle /\ UploadIdle /\ BuildersNew

Next ==
    \/ \E url \in Urls, username \in Usernames, password \in Passwords :
          login(url, username, password)
    \/ get_torrent_list
    \/ \E hash \in TorrentHashes : get_torrent_trackers(hash)
    \/ \E hash \in TorrentHashes, t \in TrackerUrls : add_torrent_tracker(hash, t)
    \/ \E hash \in TorrentHashes, t \in TrackerUrls : replace_torrent_tracker(hash, t, t)
    \/ \E hash \in TorrentHashes, t \in TrackerUrls : remove_torrent_tracker(hash, t)
    \/ \E upload \in Uploads : add_torrent(upload)
    \/ \E hash \in TorrentHashes, d \in BOOLEAN : remove_torrent(hash, d)
    \/ \E hashes \in TorrentLists, d \in BOOLEAN : remove_torrents(hashes, d)
    \/ get_tags
    \/ \E t \in TagNames : create_tag(t)
    \/ \E t \in TagNames : delete_tag(t)
    \/ Respond

Spec == Init /\ [][Next]_vars

InitParams ==
    /\ ClientNew
    /\ BuildersNew
    /\ UploadIdle
    /\ params \in ParamsSpace
    /\ encoded = None

NextParams == ToParams

SpecParams == InitParams /\ [][NextParams]_vars

NextBuilder ==
    \/ \E f \in {"All", "StalledUploading"} : ListBuilder_filter(f)
    \/ \E c \in Categories : ListBuilder_category(c)
    \/ \E t \in Tags : ListBuilder_tag(t)
    \/ ListBuilder_reverse
    \/ \E n \in {10} : ListBuilder_limit(n)
    \/ \E n \in {5} : ListBuilder_offset(n)
    \/ \E h \in HashNames : ListBuilder_hash(h)
    \/ \E hs \in {<<>>, <<"c">>} : ListBuilder_hashes(hs)
    \/ ListBuilder_build
    \/ \E u \in {"magnet:?xt=1"} : UploadBuilder_url(u)
    \/ UploadBuilder_torrent_data("a.torrent", <<1, 2>>)
    \/ \E t \in {"iso", "hd"} : UploadBuilder_tag(t)
    \/ \E ts \in {<<"x">>} : UploadBuilder_tags(ts)
    \/ \E n \in {500} : UploadBuilder_upload_limit(n)
    \/ UploadBuilder_build

SpecBuilder == Init /\ [][NextBuilder]_vars

\* the filters a caller of the list operation holds
ListFilters ==
    {DefaultParams,
     [DefaultParams EXCEPT !.filter = Some("Downloading")],
     [DefaultParams EXCEPT !.category = Some("movies"), !.limit = Some(10)]}

InitList ==
    /\ ClientNew
    /\ BuildersNew
    /\ UploadIdle
    /\ params \in ListFilters
    /\ encoded = None

NextList ==
    \/ \E url \in Urls, username \in Usernames, password \in Passwords :
          login(url, username, password)
    \/ get_torrent_list
    \/ Respond

SpecList == InitList /\ [][NextList]_vars

InitUpload ==
    /\ ClientNew
    /\ BuildersNew
    /\ ParamsIdle
    /\ torrent_upload \in UploadSpace
    /\ built_form = None

NextUpload == ToMultipartForm

SpecUpload == InitUpload /\ [][NextUpload]_vars

(***************************************************************************)
(* The claims about the session client, checked under Spec.                *)
(***************************************************************************)
AuthenticatedOps ==
    {"get_torrent_list", "get_torrent_trackers", "add_torrent_tracker",
     "replace_torrent_tracker", "remove_torrent_tracker", "add_torrent",
     "remove_torrent", "remove_torrents", "get_tags", "create_tag", "delete_tag"}

\* the response the latest step of a call was given
Resp == Unwrap(event.resp)

\* the latest step is a login that read the whole body of a response
LoginReadBody == event.op = "login" /\ Resp.received /\ Resp.body_read

\* C1: while no login has succeeded, every authenticated operation returns the
\* Authorization error and no request of an authenticated operation is in flight.
C1_NoLoginNoRequest ==
    lastLogin = None =>
        /\ pending = EmptyBag
        /\ event.op \in AuthenticatedOps => event.kind = "Authorization"

\* C1 witness: no login has succeeded and add_torrent was refused
C1_Witness ==
    /\ lastLogin = None
    /\ event.op = "add_torrent"
    /\ event.kind = "Authorization"

C3_FailedLoginKeepsSession ==
    [][event'.op = "login" /\ event'.kind # "Ok" =>
          auth_string' = auth_string /\ connection_info' = connection_info]_vars

\* C3 witness: a login for another url failed and the session of the previous
\* successful login is still there
C3_Witness ==
    /\ event.op = "login"
    /\ event.kind \in {"Authorization", "Http", "Panic"}
    /\ IsSome(lastLogin)
    /\ IsSome(auth_string) /\ IsSome(connection_info)
    /\ Unwrap(connection_info).url # event.args[1]

\* C4: token and connection info are both absent or both present.
C4_TokenAndConnectionTogether ==
    IsSome(auth_string) <=> IsSome(connection_info)

\* C4 witness: both are present after a re-login that ended in a panic
C4_Witness ==
    /\ IsSome(auth_string) /\ IsSome(connection_info)
    /\ event.op = "login"
    /\ event.kind = "Panic"

\* what C5 promises of the session after the login the latest step made
C5_Stored ==
    /\ event.kind = "Ok"
    /\ auth_string = SidSegmentOf(Resp.set_cookie)
    /\ connection_info = Some([url |-> event.args[1], username |-> event.args[2],
                               password |-> event.args[3]])

C6_MissingSidIsDecodeError ==
    /\ LoginReadBody
    /\ Is2xx(Resp.status)
    /\ Resp.body = "Ok."
    /\ SidSegmentOf(Resp.set_cookie) = None
    => event.kind = "Json"

\* the endpoint of each authenticated operation
EndpointOf(op) ==
    CASE op = "get_torrent_list" -> "/api/v2/torrents/info"
      [] op = "get_torrent_trackers" -> "/api/v2/torrents/trackers"
      [] op = "add_torrent_tracker" -> "/api/v2/torrents/addTrackers"
      [] op = "replace_torrent_tracker" -> "/api/v2/torrents/editTracker"
      [] op = "remove_torrent_tracker" -> "/api/v2/torrents/removeTrackers"
      [] op = "add_torrent" -> "/api/v2/torrents/add"
      [] op = "remove_torrent" -> "/api/v2/torrents/delete"
      [] op = "remove_torrents" -> "/api/v2/torrents/delete"
      [] op = "get_tags" -> "/api/v2/torrents/tags"
      [] op = "create_tag" -> "/api/v2/torrents/createTags"
      [] op = "delete_tag" -> "/api/v2/torrents/deleteTags"

\* C7: every request of an authenticated operation carries as Cookie the SID
\* segment of the latest successful login and goes to the url given to that
\* same login.  (login runs with no request in flight, so the requests in
\* flight were all dispatched after it.)
C7_RequestsUseLatestLogin ==
    \A req \in BagToSet(pending) :
        /\ IsSome(lastLogin)
        /\ Some(req.cookie) = Unwrap(lastLogin).token
        /\ req.url = Unwrap(lastLogin).url \o EndpointOf(req.op)

\* C7 witness: a request is in flight after a re-login that changed both the
\* url and the token
C7_Witness ==
    /\ IsSome(lastLogin)
    /\ Unwrap(lastLogin).replaced
    /\ \E req \in BagToSet(pending) : req.op = "get_torrent_list"

\* C10: with a session, add_torrent given an upload with no url and no file
\* fails (the encoder panics) and dispatches nothing; given an upload with a
\* url or a file the encoder yields a form and the request carrying it leaves.
C10_EmptyUploadFailsUnsent ==
    [][event'.op = "add_torrent" /\ event'.resp = None /\ Authenticated =>
          LET upload == event'.args[1]
          IN IF upload.urls = <<>> /\ upload.torrents = <<>>
             THEN event'.kind = "Panic" /\ pending' = pending
             ELSE /\ event'.kind = "Pending"
                  /\ \E req \in BagToSet(pending') :
                        /\ pending' = pending (+) SetToBag({req})
                        /\ req.op = "add_torrent"
                        /\ IsSome(req.multipart)
                        /\ Unwrap(req.multipart) # <<>>]_vars

\* C10 witness: with a session, an upload with only a speed limit set made
\* the encoder panic
C10_Witness ==
    /\ Authenticated
    /\ event.op = "add_torrent"
    /\ event.kind = "Panic"
    /\ event.args[1].upload_limit = Some(500)

\* the hashes of a list, each but the first preceded by "|"
RECURSIVE PipeJoined(_)
PipeJoined(hashes) ==
    IF hashes = <<>> THEN ""
    ELSE IF Len(hashes) = 1 THEN hashes[1]
    ELSE PipeJoined(SubSeq(hashes, 1, Len(hashes) - 1)) \o "|" \o hashes[Len(hashes)]

\* C12: with a session, remove_torrents on a list of torrents dispatches exactly
\* one request, to the delete endpoint, whose hashes field is the hashes in list
\* order joined by "|" and whose deleteFiles field is the one flag as a string.
C12_RemoveTorrentsJoinsHashes ==
    [][event'.op = "remove_torrents" /\ event'.resp = None /\ Authenticated =>
          /\ event'.kind = "Pending"
          /\ \E req \in BagToSet(pending') :
                /\ pending' = pending (+) SetToBag({req})
                /\ req.op = "remove_torrents"
                /\ req.method = "POST"
                /\ req.url = Unwrap(connection_info).url \o "/api/v2/torrents/delete"
                /\ req.form =
                      << <<"hashes", PipeJoined(event'.args[1])>>,
                         <<"deleteFiles", IF event'.args[2] THEN "true" ELSE "false">> >>
                /\ req.multipart = None]_vars

\* C12 witness: the torrents a, b, c removed with their files left a request
\* in flight whose hashes field is "a|b|c"
C12_Witness ==
    /\ event.op = "remove_torrents"
    /\ event.kind = "Pending"
    /\ event.args = << <<"a", "b", "c">>, TRUE >>
    /\ \E req \in BagToSet(pending) :
          /\ req.op = "remove_torrents"
          /\ req.form = << <<"hashes", "a|b|c">>, <<"deleteFiles", "true">> >>

\* the state a wire name stands for when every name that is not enumerated
\* stands for Unknown
StateOrUnknown(name) ==
    IF TorrentStateFromWire(name) # None THEN Unwrap(TorrentStateFromWire(name))
    ELSE "Unknown"

\* C13: a list response whose body is an array of torrents, whatever their
\* state names, makes get_torrent_list succeed, each state name that is not
\* enumerated decoded as Unknown; it never gives a decode error.
C13_UnknownStateDecodesAsUnknown ==
    /\ event.op = "get_torrent_list"
    /\ IsSome(event.resp)
    /\ Resp.received /\ Is2xx(Resp.status) /\ Resp.body_read
    /\ ParseTorrentList(Resp.body) # None
    => /\ event.kind = "Ok"
       /\ LET doc == Unwrap(ParseTorrentList(Resp.body))
          IN DecodeTorrentList(Resp.body) =
                Some([i \in 1..Len(doc) |-> StateOrUnknown(doc[i])])

\* the latest step is a call that returned without its result
Failed == event.kind \notin {"Ok", "Pending"}

\* the causes of failure: no session when an authenticated operation is called
\* or the body check of login failing; no response, a non-2xx status or a body
\* cut short; a 2xx body that does not decode as the operation expects
CauseNoSession ==
    \/ event.op \in AuthenticatedOps /\ event.resp = None /\ ~Authenticated
    \/ LoginReadBody /\ Is2xx(Resp.status) /\ Resp.body # "Ok."

CauseTransport ==
    /\ IsSome(event.resp)
    /\ \/ ~Resp.received
       \/ ~Is2xx(Resp.status)
       \/ ~Resp.body_read /\ event.op \in JsonOps \cup {"login"}

CauseDecode ==
    /\ event.op \in JsonOps
    /\ IsSome(event.resp)
    /\ Resp.received /\ Is2xx(Resp.status) /\ Resp.body_read
    /\ IF event.op = "get_torrent_list" THEN DecodeTorrentList(Resp.body) = None
       ELSE Resp.body # "[]"

\* C14: every call that fails reports one of Authorization, Http and Json, and
\* reports each exactly when its cause is the one that kind stands for.
C14_FailuresReportTheirCause ==
    Failed =>
        /\ event.kind \in {"Authorization", "Http", "Json"}
        /\ event.kind = "Authorization" <=> CauseNoSession
        /\ event.kind = "Http" <=> CauseTransport
        /\ event.kind = "Json" <=> CauseDecode

\* C17: token and connection info change only in a login that succeeds; every
\* step of an authenticated operation, its refusal, its dispatch and its
\* return with any outcome, while other calls are in flight or not, leaves
\* both as they were.
C17_SessionChangesOnlyInLogin ==
    [][/\ auth_string' # auth_string \/ connection_info' # connection_info =>
             event'.op = "login" /\ event'.kind = "Ok"
       /\ event'.op \in AuthenticatedOps =>
             auth_string' = auth_string /\ connection_info' = connection_info]_vars

\* C17 witness: get_torrent_trackers returned a transport error while a
\* remove_torrent request was still in flight, and the session is the one the
\* latest successful login stored
C17_Witness ==
    /\ event.op = "get_torrent_trackers"
    /\ event.kind = "Http"
    /\ \E req \in BagToSet(pending) : req.op = "remove_torrent"
    /\ IsSome(lastLogin)
    /\ auth_string = Unwrap(lastLogin).token
    /\ IsSome(connection_info)
    /\ Unwrap(connection_info).url = Unwrap(lastLogin).url

(***************************************************************************)
(* The claim about the filter of the list operation, checked under         *)
(* SpecList, where the caller holds the filter `params`.                   *)
(***************************************************************************)
\* C15: the list operation is given the caller's GetTorrentListParams value
\* and the request it dispatches goes to the list endpoint with the fragment
\* to_params yields for that value attached.
C15_ListRequestCarriesParams ==
    /\ event.op = "get_torrent_list" /\ event.resp = None =>
          event.args = <<params>>
    /\ \A req \in BagToSet(pending) :
          req.op = "get_torrent_list" =>
              LET endpoint == Unwrap(connection_info).url \o "/api/v2/torrents/info"
              IN req.url \in {endpoint \o to_params(params),
                              endpoint \o "?" \o to_params(params)}

(***************************************************************************)
(* The claim about to_params, checked under SpecParams.                    *)
(***************************************************************************)
\* "&key=value" for a set field, nothing for an unset one
Segment(key, value) ==
    IF value = None THEN "" ELSE "&" \o key \o "=" \o Unwrap(value)

\* the segments of the set fields, each with its own value, in the order
\* filter, category, tag, reverse, limit, offset, hashes
ExpectedParams(p) ==
    Segment("filter", OptFilter(p.filter))
    \o Segment("category", p.category)
    \o Segment("tag", p.tag)
    \o Segment("reverse", OptBool(p.reverse))
    \o Segment("limit", OptInt(p.limit))
    \o Segment("offset", OptInt(p.offset))
    \o Segment("hashes", OptJoined(p.hashes, "|"))

\* C8: to_params emits one "&key=value" segment for each set field, with that
\* field's own value, nothing for an unset field, in the fixed order.
C8_OneSegmentPerSetField ==
    IsSome(encoded) => Unwrap(encoded) = ExpectedParams(params)

(***************************************************************************)
(* The claims about the builders, checked under SpecBuilder.               *)
(***************************************************************************)
\* C9: from a fresh builder, n calls of hash (of tag) and then build() yield a
\* value whose hashes (tags) are the n items in call order.
C9_AppendsAccumulate ==
    /\ IsSome(lbuilt) /\ IsSome(calls.lbuilt_log) /\ Unwrap(calls.lbuilt_log) # <<>>
          => Unwrap(lbuilt).hashes = calls.lbuilt_log
    /\ IsSome(ubuilt) /\ IsSome(calls.ubuilt_log) /\ Unwrap(calls.ubuilt_log) # <<>>
          => Unwrap(ubuilt).tags = calls.ubuilt_log

\* a step keeps the value the list builder built: the value is as it was,
\* unless the step is build(), which yields the builder's configuration anew
ListBuiltKept ==
    IsSome(lbuilt) =>
        \/ lbuilt' = lbuilt
        \/ lbuilt' = Some(lbuilder) /\ lbuilder' = lbuilder

\* the same of the upload builder
UploadBuiltKept ==
    IsSome(ubuilt) =>
        \/ ubuilt' = ubuilt
        \/ ubuilt' = Some(ubuilder) /\ ubuilder' = ubuilder

\* C16: what build() returned is a snapshot: the caller still holds it,
\* unchanged, after any setter called on the same builder, for both builders.
C16_BuiltValueIsSnapshot ==
    [][ListBuiltKept /\ UploadBuiltKept]_vars

(***************************************************************************)
(* The claims about to_multipart_form, checked under SpecUpload.           *)
(***************************************************************************)
\* the external names of the optional fields
OptionalPartNames ==
    {"savepath", "cookie", "category", "tags", "skip_checking", "paused",
     "root_folder", "rename", "upLimit", "dlLimit", "ratioLimit",
     "seedingTimeLimit", "autoTMM", "sequentialDownload", "firstLastPiecePrio"}

\* Option of the string form of the field that goes under an external name
OptionalText(u, name) ==
    CASE name = "savepath" -> u.save_path
      [] name = "cookie" -> u.cookie
      [] name = "category" -> u.category
      [] name = "tags" -> OptJoined(u.tags, ",")
      [] name = "skip_checking" -> OptBool(u.skip_hash_check)
      [] name = "paused" -> OptBool(u.paused)
      [] name = "root_folder" -> OptBool(u.root_folder)
      [] name = "rename" -> u.rename
      [] name = "upLimit" -> OptInt(u.upload_limit)
      [] name = "dlLimit" -> OptInt(u.download_limit)
      [] name = "ratioLimit" -> OptF32(u.ratio_limit)
      [] name = "seedingTimeLimit" -> OptInt(u.seeding_time_limit)
      [] name = "autoTMM" -> OptBool(u.auto_tmm)
      [] name = "sequentialDownload" -> OptBool(u.sequential_download)
      [] name = "firstLastPiecePrio" -> OptBool(u.first_last_piece_prio)

\* the positions of the parts of a form that go under a name
PartsNamed(parts, name) == {i \in 1..Len(parts) : parts[i].name = name}

\* the parts emitted have, under each external name, one text part with the
\* field's string form when the field is set and no part when it is unset
OnePartPerSetField(u, parts) ==
    \A name \in OptionalPartNames :
        LET hits == PartsNamed(parts, name)
            text == OptionalText(u, name)
        IN IF IsSome(text)
           THEN /\ Cardinality(hits) = 1
                /\ \A i \in hits : parts[i].text = text /\ parts[i].file = None
           ELSE hits = {}

\* the upload has a url or a file
HasSource(u) == u.urls # <<>> \/ u.torrents # <<>>

RECURSIVE LinesOf(_)
LinesOf(urls) ==
    IF urls = <<>> THEN ""
    ELSE IF Len(urls) = 1 THEN urls[1]
    ELSE LinesOf(SubSeq(urls, 1, Len(urls) - 1)) \o "\n" \o urls[Len(urls)]

\* the k-th smallest of a set of positions
NthOf(positions, k) ==
    CHOOSE i \in positions : Cardinality({j \in positions : j < i}) = k - 1

\* C18: for every TorrentUpload that has a url or a file, to_multipart_form
\* emits one text part "urls" with all the urls in list order joined by newline,
\* or no "urls" part when there is no url, and one file part "torrents" for each
\* file entry, in list order, with that entry's filename and bytes and the
\* content type application/x-bittorrent.
C18_UrlsJoinedFilesInOrder ==
    IsSome(built_form) /\ HasSource(torrent_upload) =>
        LET parts == Unwrap(built_form).form
            urls == torrent_upload.urls
            torrents == torrent_upload.torrents
            urlHits == PartsNamed(parts, "urls")
            fileHits == PartsNamed(parts, "torrents")
        IN /\ ~Unwrap(built_form).panicked
           /\ IF urls = <<>> THEN urlHits = {}
              ELSE /\ Cardinality(urlHits) = 1
                   /\ \A i \in urlHits :
                         parts[i].text = Some(LinesOf(urls)) /\ parts[i].file = None
           /\ Cardinality(fileHits) = Len(torrents)
           /\ \A k \in 1..Len(torrents) :
                 LET part == parts[NthOf(fileHits, k)]
                 IN /\ part.text = None
                    /\ part.file = Some([file_name |-> torrents[k][1],
                                         bytes |-> torrents[k][2],
                                         mime |-> "application/x-bittorrent"])

\* C18 witness: two urls and two files gave the part urls =
\* "magnet:?xt=1" newline "http://host/b.torrent", then the file part of
\* b.torrent, then the file part of a.torrent, as they were listed
C18_Witness ==
    /\ IsSome(built_form)
    /\ torrent_upload.urls = <<"magnet:?xt=1", "http://host/b.torrent">>
    /\ Len(torrent_upload.torrents) = 2
    /\ LET parts == Unwrap(built_form).form
       IN /\ Len(parts) >= 3
          /\ parts[1] = TextPart("urls", "magnet:?xt=1\nhttp://host/b.torrent")
          /\ parts[2] = FilePart("torrents", "b.torrent", <<3>>)
          /\ parts[3] = FilePart("torrents", "a.torrent", <<1, 2>>)
          /\ PartsNamed(parts, "torrents") = {2, 3}
          /\ PartsNamed(parts, "urls") = {1}

====
